---- MODULE Spec2Model ----
(***************************************************************************)
(* Model of the RDC collective variable (src/src/colvar/RDC.cpp): the      *)
(* constructor RDC::RDC, which reads the ATOMS/GYROM/SCALE/COUPLING        *)
(* keywords and the SVD/SERIAL flags, and RDC::calculate, which every      *)
(* worker of the communicator runs on the same positions.                  *)
(*                                                                         *)
(* Numbers.  The code computes in double; the model keeps every quantity   *)
(* exact, as an integer numerator over a unit that depends only on the     *)
(* slot and on the bond (ind = 1/|distance| of that bond):                 *)
(*    rdc[index]                 unit (Const/2) * ind^5                    *)
(*    dRDC[r][0], dRDC[r][1]     unit (Const/2) * ind^7                    *)
(*    dRDC[r][2]                 unit (Const/2) * ind^9                    *)
(*    dervir[index][i][j]        unit of dRDC[r][j]                        *)
(* so that 0.5, 1.5, 3, 4.5, 6, 9 of the source read 1, 3, 6, 9, 12, 18.   *)
(* A bond of length zero gives ind = 1/0 = inf and 0*inf = NaN in every    *)
(* slot; NaN is kept as a value of its own and is absorbing.  Rounding is  *)
(* not modelled.                                                           *)
(***************************************************************************)
EXTENDS Integers, Sequences, FiniteSets, TLC

\* Largest number of ATOMSi keywords (and largest keyword index) of SpecSetup.
MaxBonds == 2
\* Largest number of bonds of SpecEval, as an excess over NPar.
ExtraBonds == 0
\* Largest communicator size.
MaxW == 2
\* Number of unknowns of the order tensor: the columns of coef_mat.
NPar == 5

VARIABLES
  input,    \* the input line: [atoms, words, SVD, SERIAL]
  hasGSL,   \* whether the build defines __PLUMED_HAS_GSL
  obj,      \* the RDC object and what its construction left behind
  W,        \* comm.Get_size() of the evaluation; 0 before calculate() is called
  pos,      \* positions of the requested atoms, indexed as getPosition(r)
  wpc,      \* per worker: where it stands in calculate()
  rdc,      \* per worker: vector<double> rdc
  dRDC,     \* per worker: vector<Vector> dRDC
  dervir,   \* per worker: vector<Tensor> dervir
  visited,  \* per worker: the bond indices its kernel loop has processed
  solved,   \* per worker: whether gsl_linalg_SV_decomp/SV_solve were called
  out,      \* per worker: what the components hold after val->set(...)
  nSum      \* number of comm.Sum reductions performed

vars == <<input, hasGSL, obj, W, pos, wpc, rdc, dRDC, dervir, visited, solved, out, nSum>>

Idx(n) == 0..(n - 1)

-----------------------------------------------------------------------------
(* Exact arithmetic with NaN *)

\* A double: <<n>> is the finite value of numerator n, <<>> is NaN.
Fin(n) == <<n>>

NaN == <<>>

Mul(a, b) == IF a = NaN \/ b = NaN THEN NaN ELSE Fin(a[1] * b[1])

Add(a, b) == IF a = NaN \/ b = NaN THEN NaN ELSE Fin(a[1] + b[1])

Neg(a) == IF a = NaN THEN NaN ELSE Fin(0 - a[1])

ZeroVector == <<Fin(0), Fin(0), Fin(0)>>

ZeroTensor == <<ZeroVector, ZeroVector, ZeroVector>>

\* Vector operator-
NegVector(v) == <<Neg(v[1]), Neg(v[2]), Neg(v[3])>>

AddVector(a, b) == <<Add(a[1], b[1]), Add(a[2], b[2]), Add(a[3], b[3])>>

AddTensor(a, b) == <<AddVector(a[1], b[1]), AddVector(a[2], b[2]), AddVector(a[3], b[3])>>

\* Tensor(v1, v2): the outer product, d[i][j] = v1[i]*v2[j]; v1 is a
\* displacement (integers), v2 a vector of doubles.
Tensor(v1, v2) ==
  << <<Mul(Fin(v1[1]), v2[1]), Mul(Fin(v1[1]), v2[2]), Mul(Fin(v1[1]), v2[3])>>,
     <<Mul(Fin(v1[2]), v2[1]), Mul(Fin(v1[2]), v2[2]), Mul(Fin(v1[2]), v2[3])>>,
     <<Mul(Fin(v1[3]), v2[1]), Mul(Fin(v1[3]), v2[2]), Mul(Fin(v1[3]), v2[3])>> >>

\* pbcDistance(a, b) without periodic images: b - a.
pbcDistance(a, b) == <<b[1] - a[1], b[2] - a[2], b[3] - a[3]>>

-----------------------------------------------------------------------------
(* The input line *)

\* The value a keyword carries: i = 0 is the un-numbered keyword.
KwValue(key, i) ==
  CASE key = "GYROM" -> IF i = 0 THEN 0 - 7 ELSE 10 + i
    [] key = "SCALE" -> IF i = 0 THEN 2 ELSE 2 + i
    [] OTHER         -> 5 + i

\* parseNumbered(key, i, x) / parse(key, x): whether the word is on the line.
Found(line, key, i) == <<key, i>> \in line

\* The line once the word has been read.
Consume(line, key, i) == line \ {<<key, i>>}

-----------------------------------------------------------------------------
(* RDC::RDC *)

NewObject(in) ==
  [status |-> "running", errmsg |-> "", line |-> in.words, ndata |-> 0,
   mu_s |-> <<>>, scale |-> <<>>, coupl |-> <<>>, serial |-> FALSE, svd |-> FALSE,
   comps |-> <<>>, acc |-> {}]

Error(o, msg) == [o EXCEPT !.status = "error", !.errmsg = msg]

\* for(i=1;;++i){ parseAtomList; if(t.empty()) break; if(t.size()!=2) error; ... }
RECURSIVE ReadAtoms(_, _, _)
ReadAtoms(o, lists, i) ==
  IF i > Len(lists) THEN [o EXCEPT !.ndata = (2 * (i - 1)) \div 2]
  ELSE IF lists[i] # 2 THEN Error(o, "ATOMS keyword has the wrong number of atoms")
  ELSE ReadAtoms(o, lists, i + 1)

\* for(i=0;i<ndata;++i){ if(!parseNumbered(key,i+1,arr[i])) break; ntarget++; }
\* s = [line, arr, ntarget, acc]; name is the array the values go to.
RECURSIVE NumberedLoop(_, _, _, _, _)
NumberedLoop(key, name, nd, s, i) ==
  IF i >= nd THEN s
  ELSE LET s1 == [s EXCEPT !.acc = @ \cup {<<name, i, nd>>}]
       IN IF ~Found(s.line, key, i + 1) THEN s1
          ELSE NumberedLoop(key, name, nd,
                 [s1 EXCEPT !.arr[i] = KwValue(key, i + 1),
                            !.line = Consume(@, key, i + 1),
                            !.ntarget = @ + 1],
                 i + 1)

\* if(ntarget==0){ parse(key,arr[0]); for(i=1;i<ndata;++i) arr[i]=arr[0]; }
\* With ndata = 0 the array is empty and arr[0] is outside it: the access is
\* recorded and the array left as it is.
Broadcast(key, name, nd, s) ==
  LET s1 == [s EXCEPT !.acc = @ \cup {<<name, 0, nd>>}]
  IN IF nd = 0 THEN [s1 EXCEPT !.line = Consume(@, key, 0)]
     ELSE LET a0 == IF Found(s.line, key, 0) THEN KwValue(key, 0) ELSE s.arr[0]
          IN [s1 EXCEPT !.arr = [i \in Idx(nd) |-> a0],
                        !.line = Consume(@, key, 0),
                        !.acc = @ \cup {<<name, i, nd>> : i \in Idx(nd)}]

\* else if( ntarget!=ndata ) error("found wrong number of ... values")
WrongCount(ntarget, ndata) == ntarget # ndata

\* Lines 182-192 (GYROM -> mu_s, initial value 0) and 194-205 (SCALE -> scale,
\* initial value 1.0): the array is resized, the numbered values are read, and
\* either the shared value is broadcast or the count is checked.  resize()
\* zero-fills without indexing; the loop that sets scale[i]=1.0 indexes every i.
\* ubAbort: whether the build stops at an access outside the array.
PerBondStage(o, key, name, initial, ubAbort) ==
  IF o.status # "running" THEN o
  ELSE
    LET nd == o.ndata
        s0 == [line |-> o.line, arr |-> [i \in Idx(nd) |-> initial], ntarget |-> 0,
               acc |-> o.acc \cup (IF initial = 0 THEN {} ELSE {<<name, i, nd>> : i \in Idx(nd)})]
        s1 == NumberedLoop(key, name, nd, s0, 0)
        s2 == IF s1.ntarget = 0 THEN Broadcast(key, name, nd, s1) ELSE s1
        o2 == [o EXCEPT !.line = s2.line, !.acc = s2.acc, ![name] = s2.arr]
    IN IF s1.ntarget = 0
       THEN IF nd = 0 /\ ubAbort THEN [o2 EXCEPT !.status = "crash"] ELSE o2
       ELSE IF WrongCount(s1.ntarget, nd)
            THEN Error(o2, "found wrong number of " \o key \o " values")
            ELSE o2

\* if(svd) error(...) under #ifndef __PLUMED_HAS_GSL
SvdFlag(o, in, gsl) ==
  IF o.status # "running" THEN o
  ELSE IF in.SVD /\ ~gsl
       THEN Error([o EXCEPT !.svd = TRUE], "You CANNOT use SVD without GSL")
       ELSE [o EXCEPT !.svd = in.SVD]

\* Variant of CouplingCountError: only a surplus of values is reported.
CouplingCountErrorSurplusOnly(ntarget, ndata) == ntarget > ndata

\* if( ntarget!=ndata ) error("found wrong number of COUPLING values")
CouplingCountError(ntarget, ndata) == ntarget # ndata

\* Lines 212-221.
CouplingStage(o) ==
  IF o.status # "running" \/ ~o.svd THEN o
  ELSE
    LET nd == o.ndata
        s0 == [line |-> o.line, arr |-> [i \in Idx(nd) |-> 0], ntarget |-> 0, acc |-> o.acc]
        s1 == NumberedLoop("COUPLING", "coupl", nd, s0, 0)
        o1 == [o EXCEPT !.line = s1.line, !.acc = s1.acc, !.coupl = s1.arr]
    IN IF CouplingCountError(s1.ntarget, nd)
       THEN Error(o1, "found wrong number of COUPLING values")
       ELSE o1

\* serial=false; parseFlag("SERIAL",serial);
SerialFlag(o, in) ==
  IF o.status # "running" THEN o ELSE [o EXCEPT !.serial = in.SERIAL]

\* checkRead(): every word of the line must have been read.
checkRead(o) ==
  IF o.status # "running" THEN o
  ELSE IF o.line # {} THEN Error(o, "cannot understand the following words from the input line")
  ELSE o

\* if(svd) serial=true;
ForcedSerial(svd, serial) == IF svd THEN TRUE ELSE serial

\* Variant of WithDerivatives: every component is added with derivatives.
WithDerivativesAlways(svd) == TRUE

\* addComponentWithDerivatives unless svd, addComponent otherwise.
WithDerivatives(svd) == ~svd

\* Lines 234-249.
Components(o) ==
  IF o.status # "running" THEN o
  ELSE [o EXCEPT !.serial = ForcedSerial(o.svd, o.serial),
                 !.comps = [i \in Idx(o.ndata) |-> [withDerivatives |-> WithDerivatives(o.svd)]],
                 !.status = "ready"]

\* The constructor, stage by stage; error() leaves through an exception, so a
\* stage does nothing once the status is no longer "running".
RDC_ctor(in, gsl, ubAbort) ==
  LET o1 == ReadAtoms(NewObject(in), in.atoms, 1)
      o2 == PerBondStage(o1, "GYROM", "mu_s", 0, ubAbort)
      o3 == PerBondStage(o2, "SCALE", "scale", 1, ubAbort)
      o4 == SvdFlag(o3, in, gsl)
      o5 == CouplingStage(o4)
      o6 == SerialFlag(o5, in)
      o7 == checkRead(o6)
  IN Components(o7)

-----------------------------------------------------------------------------
(* RDC::calculate, direct mode *)

Sq(a) == a * a

\* rdc[index] = 0.5*dmax*(3.*cos_theta*cos_theta-1.), max = -Const*scale*mu_s
RdcValue(distance, mu, sc) ==
  LET x2 == Sq(distance[1])
      y2 == Sq(distance[2])
      z2 == Sq(distance[3])
      max == 0 - (sc * mu)
  IN IF x2 + y2 + z2 = 0 THEN NaN
     ELSE Fin(max * (3 * z2 - (x2 + y2 + z2)))

\* dRDC[r][0..2], lines 284-290
Gradient(distance, mu, sc) ==
  LET x2 == Sq(distance[1])
      y2 == Sq(distance[2])
      z2 == Sq(distance[3])
      max == 0 - (sc * mu)
      prod == (0 - max) * (3 * x2 + 3 * y2 - 12 * z2)
  IN IF x2 + y2 + z2 = 0 THEN <<NaN, NaN, NaN>>
     ELSE <<Fin(prod * distance[1]),
            Fin(prod * distance[2]),
            Fin((0 - max) * distance[3]
              * (9 * x2 * x2 + 9 * y2 * y2 + 3 * y2 * z2 - 6 * z2 * z2 + x2 * (18 * y2 + 3 * z2)))>>

\* Variant of OtherAtom: the second atom gets the first atom's gradient.
OtherAtomSameSign(g) == g

\* dRDC[r+1] = -dRDC[r];
OtherAtom(g) == NegVector(g)

\* Variant of BondVirial: the outer product is taken with dRDC[r+1].
BondVirialSecondAtom(distance, g) == Tensor(distance, NegVector(g))

\* dervir[index] += Tensor(distance,dRDC[r]);
BondVirial(distance, g) == Tensor(distance, g)

\* Variant of Rank: every worker starts at the first bond.
RankZero(w, serial) == 0

\* unsigned rank=2*comm.Get_rank(); if(serial) rank=0;
Rank(w, serial) == IF serial THEN 0 ELSE 2 * w

\* unsigned stride=2*comm.Get_size(); if(serial) stride=2;
Stride(size, serial) == IF serial THEN 2 ELSE 2 * size

\* vector<double> rdc(ndata); vector<Vector> dRDC(N); vector<Tensor> dervir(ndata);
FreshBuffers(nd) ==
  [rdc |-> [i \in Idx(nd) |-> Fin(0)],
   dRDC |-> [r \in Idx(2 * nd) |-> ZeroVector],
   dervir |-> [i \in Idx(nd) |-> ZeroTensor],
   visited |-> {}]

\* One pass of the loop body, lines 272-292.
BondStep(o, p, b, r) ==
  LET index == r \div 2
      distance == pbcDistance(p[r], p[r + 1])
      g == Gradient(distance, o.mu_s[index], o.scale[index])
  IN [rdc |-> [b.rdc EXCEPT ![index] = RdcValue(distance, o.mu_s[index], o.scale[index])],
      dRDC |-> [b.dRDC EXCEPT ![r] = g, ![r + 1] = OtherAtom(g)],
      dervir |-> [b.dervir EXCEPT ![index] = AddTensor(@, BondVirial(distance, g))],
      visited |-> b.visited \cup {index}]

\* for(unsigned r=rank;r<N;r+=stride)
RECURSIVE DirectLoop(_, _, _, _, _)
DirectLoop(o, p, b, r, stride) ==
  IF r >= 2 * o.ndata THEN b
  ELSE DirectLoop(o, p, BondStep(o, p, b, r), r + stride, stride)

\* comm.Sum(&dRDC[0][0],3*N): element r of the sum over the workers 0..n-1.
RECURSIVE SumVectors(_, _, _)
SumVectors(f, r, n) ==
  IF n = 0 THEN ZeroVector ELSE AddVector(SumVectors(f, r, n - 1), f[n - 1][r])

\* comm.Sum(&dervir[0][0][0],9*ndata): element i of the sum over the workers.
RECURSIVE SumTensors(_, _, _)
SumTensors(f, i, n) ==
  IF n = 0 THEN ZeroTensor ELSE AddTensor(SumTensors(f, i, n - 1), f[n - 1][i])

\* Lines 298-306: val->set, setBoxDerivatives, setAtomsDerivatives for r, r+1.
Published(o, vrdc, vdRDC, vdervir) ==
  [index \in Idx(o.ndata) |->
     [val |-> vrdc[index], box |-> vdervir[index],
      dA |-> vdRDC[2 * index], dB |-> vdRDC[2 * index + 1]]]

-----------------------------------------------------------------------------
(* RDC::calculate, fit mode *)

\* for(unsigned r=0; r<N; r+=2) { ... index++; }: the rows filled.
RECURSIVE FitLoop(_, _, _)
FitLoop(N, r, rows) ==
  IF r >= N THEN rows ELSE FitLoop(N, r + 2, rows \cup {r \div 2})

ZeroLength(p, index) == pbcDistance(p[2 * index], p[2 * index + 1]) = <<0, 0, 0>>

\* rdc[index] = gsl_vector_get(bc,index)*dmax[index]: the solver is GSL's; its
\* result is kept opaque.  With fewer rows than columns GSL refuses the
\* decomposition and S is left as allocated; with a bond of length zero the
\* rows hold 0/0.
FitValue(o, p, index) ==
  IF o.ndata < NPar THEN "unspecified"
  ELSE IF \E i \in Idx(o.ndata) : ZeroLength(p, i) THEN NaN
  ELSE "fitted"

\* Lines 367-370: val->set(rdc[i]) on components without derivatives.
PublishedFit(o, p) == [i \in Idx(o.ndata) |-> [val |-> FitValue(o, p, i)]]

-----------------------------------------------------------------------------
(* Inputs *)

Keys == {"GYROM", "SCALE", "COUPLING"}

Numbered(key, n) == {<<key, i>> : i \in 1..n}

\* The words of key on the line, as indices.
Given(in, key) == {i \in 1..(MaxBonds + NPar + ExtraBonds) : <<key, i>> \in in.words}

\* The two atoms of a bond are tried at the same place and at a general
\* displacement.
PairChoices ==
  { << <<1, 1, 1>>, <<1, 1, 1>> >>,
    << <<1, 1, 1>>, <<2, 3, 3>> >> }

Frames(nd) ==
  { [r \in Idx(2 * nd) |-> c[r \div 2][(r % 2) + 1]] : c \in [Idx(nd) -> PairChoices] }

\* Every combination of numbered and shared keywords over the indices
\* 1..MaxBonds, on up to MaxBonds well-formed ATOMSi lists; or an ATOMSi list
\* of the wrong size on an otherwise empty line.
SetupInputs ==
  { [atoms |-> [i \in 1..n |-> 2], words |-> ws, SVD |-> sv, SERIAL |-> se] :
      n \in 0..MaxBonds,
      ws \in SUBSET (UNION {Numbered(k, MaxBonds) : k \in Keys} \cup {<<"GYROM", 0>>, <<"SCALE", 0>>}),
      sv \in BOOLEAN, se \in BOOLEAN }
  \cup
  { [atoms |-> [i \in 1..n |-> IF i = b THEN 3 ELSE 2], words |-> {}, SVD |-> FALSE, SERIAL |-> FALSE] :
      n \in 1..MaxBonds, b \in 1..MaxBonds }

\* Well-formed lines on up to NPar + ExtraBonds bonds: GYROM shared or per bond,
\* SCALE absent or per bond, one COUPLING per bond when SVD is set.
EvalInputs ==
  UNION { { [atoms |-> [i \in 1..n |-> 2],
             words |-> g \cup s \cup (IF sv THEN Numbered("COUPLING", n) ELSE {}),
             SVD |-> sv, SERIAL |-> se] :
              g \in {{<<"GYROM", 0>>}, Numbered("GYROM", n)},
              s \in {{}, Numbered("SCALE", n)},
              sv \in BOOLEAN, se \in BOOLEAN } :
          n \in 0..(NPar + ExtraBonds) }

InitWith(inputs) ==
  /\ input \in inputs
  /\ hasGSL \in BOOLEAN
  /\ obj = [NewObject(input) EXCEPT !.status = "new"]
  /\ W = 0
  /\ pos = <<>>
  /\ wpc = <<>>
  /\ rdc = <<>>
  /\ dRDC = <<>>
  /\ dervir = <<>>
  /\ visited = <<>>
  /\ solved = <<>>
  /\ out = <<>>
  /\ nSum = 0

InitSetup == InitWith(SetupInputs)

InitEval == InitWith(EvalInputs)

-----------------------------------------------------------------------------
(* Actions *)

\* The action is constructed from the input line.
Construct ==
  /\ obj.status = "new"
  /\ \E ubAbort \in BOOLEAN : obj' = RDC_ctor(input, hasGSL, ubAbort)
  /\ UNCHANGED <<input, hasGSL, W, pos, wpc, rdc, dRDC, dervir, visited, solved, out, nSum>>

\* The host calls calculate() on every worker of a communicator of some size,
\* all with the same positions; each worker allocates its buffers (254-257).
BeginStep ==
  /\ obj.status = "ready"
  /\ W = 0
  /\ \E size \in 1..MaxW, p \in Frames(obj.ndata) :
       /\ W' = size
       /\ pos' = p
       /\ wpc' = [w \in Idx(size) |-> "kernel"]
       /\ rdc' = [w \in Idx(size) |-> FreshBuffers(obj.ndata).rdc]
       /\ dRDC' = [w \in Idx(size) |-> FreshBuffers(obj.ndata).dRDC]
       /\ dervir' = [w \in Idx(size) |-> FreshBuffers(obj.ndata).dervir]
       /\ visited' = [w \in Idx(size) |-> {}]
       /\ solved' = [w \in Idx(size) |-> FALSE]
       /\ out' = [w \in Idx(size) |-> <<>>]
  /\ UNCHANGED <<input, hasGSL, obj, nSum>>

\* Lines 267-293 on worker w.
DirectKernel(w) ==
  /\ wpc[w] = "kernel"
  /\ ~obj.svd
  /\ LET b == DirectLoop(obj, pos, FreshBuffers(obj.ndata),
                         Rank(w, obj.serial), Stride(W, obj.serial))
     IN /\ rdc' = [rdc EXCEPT ![w] = b.rdc]
        /\ dRDC' = [dRDC EXCEPT ![w] = b.dRDC]
        /\ dervir' = [dervir EXCEPT ![w] = b.dervir]
        /\ visited' = [visited EXCEPT ![w] = b.visited]
  /\ wpc' = [wpc EXCEPT ![w] = IF obj.serial THEN "publish" ELSE "sum"]
  /\ UNCHANGED <<input, hasGSL, obj, W, pos, solved, out, nSum>>

\* Lines 294-297: the two collective sums, once every worker has reached them.
CommSum ==
  /\ W > 0
  /\ \A w \in Idx(W) : wpc[w] = "sum"
  /\ dRDC' = [w \in Idx(W) |->
                [r \in Idx(2 * obj.ndata) |-> SumVectors(dRDC, r, W)]]
  /\ dervir' = [w \in Idx(W) |->
                  [i \in Idx(obj.ndata) |-> SumTensors(dervir, i, W)]]
  /\ nSum' = nSum + 2
  /\ wpc' = [w \in Idx(W) |-> "publish"]
  /\ UNCHANGED <<input, hasGSL, obj, W, pos, rdc, visited, solved, out>>

\* Lines 298-306 on worker w.
Publish(w) ==
  /\ wpc[w] = "publish"
  /\ out' = [out EXCEPT ![w] = Published(obj, rdc[w], dRDC[w], dervir[w])]
  /\ wpc' = [wpc EXCEPT ![w] = "done"]
  /\ UNCHANGED <<input, hasGSL, obj, W, pos, rdc, dRDC, dervir, visited, solved, nSum>>

\* Lines 310-372 on worker w.  gslAborts: whether GSL's error handler stops the
\* process when the decomposition is refused.
FitCalculate(w) ==
  /\ wpc[w] = "kernel"
  /\ obj.svd
  /\ visited' = [visited EXCEPT ![w] = FitLoop(2 * obj.ndata, 0, {})]
  /\ solved' = [solved EXCEPT ![w] = TRUE]
  /\ \E gslAborts \in BOOLEAN :
       IF obj.ndata < NPar /\ gslAborts
       THEN /\ wpc' = [wpc EXCEPT ![w] = "aborted"]
            /\ out' = out
       ELSE /\ wpc' = [wpc EXCEPT ![w] = "done"]
            /\ out' = [out EXCEPT ![w] = PublishedFit(obj, pos)]
  /\ UNCHANGED <<input, hasGSL, obj, W, pos, rdc, dRDC, dervir, nSum>>

Next ==
  \/ Construct
  \/ BeginStep
  \/ \E w \in Idx(W) : DirectKernel(w)
  \/ CommSum
  \/ \E w \in Idx(W) : Publish(w)
  \/ \E w \in Idx(W) : FitCalculate(w)

SpecSetup == InitSetup /\ [][Next]_vars

SpecEval == InitEval /\ [][Next]_vars

-----------------------------------------------------------------------------
(* Properties *)

Bonds == Idx(obj.ndata)

\* The displacement of bond index in the positions of the evaluation.
Displacement(index) == pbcDistance(pos[2 * index], pos[2 * index + 1])

NoZeroLength == \A i \in Bonds : ~ZeroLength(pos, i)

FiniteVector(v) == \A k \in 1..3 : v[k] # NaN

\* What one worker alone (rank 0, stride 2, no reduction) publishes.
SingleWorkerOut ==
  LET b == DirectLoop(obj, pos, FreshBuffers(obj.ndata), 0, 2)
  IN Published(obj, b.rdc, b.dRDC, b.dervir)

\* The bonds worker w owns among size workers.
Owned(w, size) == {i \in Bonds : i % size = w}

\* C1: in direct mode, with no bond of length zero, every worker publishes for
\* every bond the value, the two derivative vectors and the virial that a
\* single worker publishes for the same positions.
C1_SameAsSingleWorker ==
  \A w \in Idx(W) :
    (~obj.svd /\ obj.ndata >= 1 /\ NoZeroLength /\ wpc[w] = "done") => out[w] = SingleWorkerOut

\* The derivative and virial part of C1 alone: after the reduction every worker
\* publishes the single worker's derivative vectors and virial.
DerivativesSameAsSingleWorker ==
  \A w \in Idx(W) :
    (~obj.svd /\ wpc[w] = "done") =>
      \A i \in Bonds : /\ out[w][i].dA = SingleWorkerOut[i].dA
                       /\ out[w][i].dB = SingleWorkerOut[i].dB
                       /\ out[w][i].box = SingleWorkerOut[i].box

\* C2: SVD requested with fewer than NPar bonds and one COUPLING per bond: the
\* constructor does not complete, and no worker ever calls the solver.  (With
\* no bond at all the constructor first indexes the empty arrays, see C10; the
\* formula is about one bond and more.)
C2_FitNeedsFiveBonds ==
  (/\ input.SVD
   /\ Len(input.atoms) \in 1..(NPar - 1)
   /\ Given(input, "COUPLING") = 1..Len(input.atoms)
   /\ obj.status # "new")
  => /\ obj.status # "ready"
     /\ \A w \in Idx(W) : ~solved[w]

\* C3, for the direct kernel: a worker whose loop has processed a bond of
\* length zero does not complete calculate() and publishes nothing.
C3_ZeroLengthIsFatal ==
  \A w \in Idx(W) :
    (~obj.svd /\ \E i \in visited[w] : ZeroLength(pos, i)) => (wpc[w] # "done" /\ out[w] = <<>>)

\* Fit mode does not stop at a bond of length zero either.
FitZeroLengthIsFatal ==
  \A w \in Idx(W) :
    (obj.svd /\ \E i \in visited[w] : ZeroLength(pos, i)) => (wpc[w] # "done" /\ out[w] = <<>>)

\* Once the constructor has completed with fewer than NPar bonds in fit mode,
\* calculate() does call the solver.
SolveNeverAttemptedBelowFive ==
  (obj.svd /\ obj.ndata \in 1..(NPar - 1)) => \A w \in Idx(W) : ~solved[w]

\* The part of C4 for one keyword, whose values go to the array name and whose
\* value without any keyword is initial.
PerBondRule(key, name, initial) ==
  LET N == Len(input.atoms)
      P == Given(input, key) \cap (1..N)
      shared == IF <<key, 0>> \in input.words THEN KwValue(key, 0) ELSE initial
  IN CASE P = {}   -> obj.status # "crash" => \A i \in Idx(N) : obj[name][i] = shared
       [] P = 1..N -> \A i \in Idx(N) : obj[name][i] = KwValue(key, i + 1)
       [] OTHER    -> obj.errmsg = "found wrong number of " \o key \o " values"

\* C4: for GYROM and for SCALE, with the numbered values given at the indices P:
\* P empty gives every bond the shared value, P = 1..N gives every bond its own
\* value, and any other P ends the constructor in the error of its count check.
\* SCALE is read once GYROM has been (P of GYROM empty or 1..N).
C4_PartialIsCountError ==
  (obj.status # "new" /\ \A i \in 1..Len(input.atoms) : input.atoms[i] = 2)
  => /\ PerBondRule("GYROM", "mu_s", 0)
     /\ (Given(input, "GYROM") \cap (1..Len(input.atoms))) \in {{}, 1..Len(input.atoms)}
          => PerBondRule("SCALE", "scale", 1)

C6_FitIsLocalAndForceFree ==
  \A w \in Idx(W) :
    (obj.svd /\ wpc[w] \in {"done", "aborted"}) =>
      /\ visited[w] = Bonds
      /\ nSum = 0
      /\ wpc[w] = "done" =>
           \A i \in Bonds : /\ DOMAIN out[w][i] = {"val"}
                            /\ ~obj.comps[i].withDerivatives

\* C6 happens: the last of several workers has completed a fit over at least
\* NPar bonds with SERIAL off.
C6_Witness ==
  /\ obj.svd
  /\ ~input.SERIAL
  /\ obj.ndata >= NPar
  /\ W >= 2
  /\ wpc[W - 1] = "done"
  /\ out[W - 1][obj.ndata - 1].val = "fitted"

\* C7 as amended: in direct mode the virial published for bond i is the outer
\* product of its displacement with the derivative published for its first atom.
C7_VirialFromFirstAtom ==
  \A w \in Idx(W) :
    (~obj.svd /\ wpc[w] = "done") =>
      \A i \in Bonds : out[w][i].box = Tensor(Displacement(i), out[w][i].dA)

\* C7 as claimed: in direct mode the virial published for bond i is the outer
\* product of its displacement with the derivative published for its second atom.
C7_VirialFromSecondAtom ==
  \A w \in Idx(W) :
    (~obj.svd /\ wpc[w] = "done") =>
      \A i \in Bonds : out[w][i].box = Tensor(Displacement(i), out[w][i].dB)

\* C7 happens: after a reduction a worker publishes a non-zero, finite virial
\* for a bond it does not own.
C7_Witness ==
  /\ ~obj.svd
  /\ W >= 2
  /\ nSum > 0
  /\ wpc[0] = "done"
  /\ obj.ndata >= 2
  /\ out[0][1].box # ZeroTensor
  /\ \A k \in 1..3 : FiniteVector(out[0][1].box[k])

\* C8: in direct mode the derivative published for the first atom of a bond is
\* the negation of the one published for its second atom, on every worker; when
\* finite, the two sum to the zero vector.
C8_OppositeDerivatives ==
  \A w \in Idx(W) :
    (~obj.svd /\ wpc[w] = "done") =>
      \A i \in Bonds :
        /\ out[w][i].dA = NegVector(out[w][i].dB)
        /\ FiniteVector(out[w][i].dB) => AddVector(out[w][i].dA, out[w][i].dB) = ZeroVector

\* C8 happens: after a reduction the last worker publishes non-zero, finite
\* derivatives for the first bond, which it does not own.
C8_Witness ==
  /\ ~obj.svd
  /\ W >= 2
  /\ nSum > 0
  /\ wpc[W - 1] = "done"
  /\ obj.ndata >= 1
  /\ FiniteVector(out[W - 1][0].dB)
  /\ out[W - 1][0].dB # ZeroVector

\* C9: in direct mode a worker that has run its kernel loop has processed the
\* bonds i with i mod W = w when SERIAL is off and every bond when it is on, and
\* with SERIAL on no reduction is performed.
C9_InterleavedPartition ==
  \A w \in Idx(W) :
    (~obj.svd /\ wpc[w] \in {"sum", "publish", "done"}) =>
      /\ visited[w] = IF input.SERIAL THEN Bonds ELSE Owned(w, W)
      /\ input.SERIAL => nSum = 0

\* C9 happens: two workers share three or more bonds with SERIAL off, and the
\* first has processed bonds 0 and 2 and not bond 1.
C9_Witness ==
  /\ ~obj.svd
  /\ ~input.SERIAL
  /\ W = 2
  /\ obj.ndata >= 3
  /\ wpc[0] = "sum"
  /\ {0, 2} \subseteq visited[0]
  /\ 1 \notin visited[0]

\* C10: the constructor indexes mu_s, scale and coupl only inside the array.
C10_AccessesInBounds ==
  \A a \in obj.acc : a[2] \in Idx(a[3])

====
